---- MODULE Spec2Model ----
(***************************************************************************)
(* Model of server.py: the JSON-RPC dispatcher handle_mcp_request, the two *)
(* tool handlers it calls, and the two POST endpoints mcp_root ("/") and   *)
(* mcp_endpoint ("/mcp") that wrap it.                                     *)
(*                                                                         *)
(* Two specifications are given.  Spec applies each endpoint, as the whole *)
(* handler it is, to every request of a bounded universe, one request      *)
(* after another.  FairSpec runs several handlers concurrently, each       *)
(* advancing from one await point of the code to the next.                 *)
(***************************************************************************)
EXTENDS Integers, Sequences, FiniteSets, TLC

VARIABLES
    request,    \* Spec: the POST being handled, [path, raw]
    reply,      \* Spec: the responses returned for it, <<>> until handled
    dispatch,   \* Spec: how the call of handle_mcp_request ended
    served,     \* Spec: number of requests answered before this one
    tasks       \* FairSpec: the handler coroutine occupying each slot

vars == <<request, reply, dispatch, served, tasks>>

(***************************************************************************)
(* Bounds of the model.                                                    *)
(***************************************************************************)
MaxServed == 2      \* earlier requests answered before the one observed
MaxInFlight == 2    \* handlers that may be in flight at once

(***************************************************************************)
(* Python values, as decoded from JSON: a tag and a payload.  A dict is a  *)
(* function from the keys it holds; a key it lacks is outside the domain.  *)
(***************************************************************************)
None == [t |-> "null", v |-> "None"]
JStr(s) == [t |-> "str", v |-> s]
JNum(n) == [t |-> "num", v |-> n]
JList(q) == [t |-> "list", v |-> q]
JDict(f) == [t |-> "dict", v |-> f]
EmptyDict == JDict(<<>>)
EmptyList == JList(<<>>)

\* type(x).__name__
PyTypeName(x) ==
    CASE x.t = "null" -> "NoneType"
      [] x.t = "str"  -> "str"
      [] x.t = "num"  -> "int"
      [] x.t = "list" -> "list"
      [] x.t = "dict" -> "dict"

\* str(x), as an f-string or str() renders the value
PyStr(x) ==
    CASE x.t = "null" -> "None"
      [] x.t = "str"  -> x.v
      [] x.t = "num"  -> ToString(x.v)
      [] x.t = "list" -> IF x.v = <<>> THEN "[]" ELSE "[...]"
      [] x.t = "dict" -> IF x.v = <<>> THEN "{}" ELSE "{...}"

\* The outcome of a call: a returned value or a raised exception.
Return(x) == [raised |-> FALSE, value |-> x]
Raise(type, message) == [raised |-> TRUE, value |-> [type |-> type, message |-> message]]

\* Only a dict has the attribute .get
HasGet(x) == x.t = "dict"

\* d.get(key, default) on a dict d
DictGet(d, key, default) == IF key \in DOMAIN d.v THEN d.v[key] ELSE default

\* The AttributeError raised by x.get(...) when x is no dict
NoGetAttribute(x) ==
    Raise("AttributeError", "'" \o PyTypeName(x) \o "' object has no attribute 'get'")

(***************************************************************************)
(* The tool handlers.                                                      *)
(***************************************************************************)
ToolDump ==
    [ name |-> "get_secret_text",
      description |-> "Returns a secret text message",
      inputSchema |-> [type |-> "object", properties |-> EmptyDict, required |-> EmptyList] ]

TextContentDump ==
    [type |-> "text", text |-> "Hello World! The secret text is: ANTHROPIC"]

\* the registry listing the tool once per decorator applied
handle_list_tools_twice == <<ToolDump, ToolDump>>

handle_list_tools == <<ToolDump>>

handle_call_tool_lenient(name, arguments) ==
    IF name = JStr("get_secret_text") THEN Return(<<TextContentDump>>) ELSE Return(<<>>)

handle_call_tool_strict(name, arguments) ==
    IF name = JStr("get_secret_text") /\ arguments = EmptyDict
    THEN Return(<<TextContentDump>>)
    ELSE Raise("ValueError", "Unknown tool: " \o PyStr(name))

handle_call_tool(name, arguments) ==
    IF name = JStr("get_secret_text")
    THEN Return(<<TextContentDump>>)
    ELSE Raise("ValueError", "Unknown tool: " \o PyStr(name))

(***************************************************************************)
(* The response envelopes built by handle_mcp_request and the endpoints.   *)
(***************************************************************************)
InitializeResponse(request_id) ==
    [ jsonrpc |-> "2.0",
      id |-> request_id,
      result |-> [ protocolVersion |-> "2025-06-18",
                   capabilities |-> [tools |-> EmptyDict],
                   serverInfo |-> [name |-> "secret-text-server", version |-> "1.0.0"] ] ]

ToolsListResponse(request_id, tools) ==
    [jsonrpc |-> "2.0", id |-> request_id, result |-> [tools |-> tools]]

ToolsCallResponse(request_id, result) ==
    [jsonrpc |-> "2.0", id |-> request_id, result |-> [content |-> result]]

MethodNotFoundWrongCode(request_id, method) ==
    [ jsonrpc |-> "2.0",
      id |-> request_id,
      error |-> [code |-> -32603, message |-> "Method not found: " \o PyStr(method)] ]

MethodNotFoundOmitsNullId(request_id, method) ==
    IF request_id = None
    THEN [ jsonrpc |-> "2.0",
           error |-> [code |-> -32601, message |-> "Method not found: " \o PyStr(method)] ]
    ELSE [ jsonrpc |-> "2.0",
           id |-> request_id,
           error |-> [code |-> -32601, message |-> "Method not found: " \o PyStr(method)] ]

MethodNotFoundResponse(request_id, method) ==
    [ jsonrpc |-> "2.0",
      id |-> request_id,
      error |-> [code |-> -32601, message |-> "Method not found: " \o PyStr(method)] ]

InternalErrorDropsId(request_id, e) ==
    [jsonrpc |-> "2.0", id |-> None, error |-> [code |-> -32603, message |-> e.message]]

InternalErrorResponse(request_id, e) ==
    [jsonrpc |-> "2.0", id |-> request_id, error |-> [code |-> -32603, message |-> e.message]]

ParseErrorResponse ==
    [jsonrpc |-> "2.0", error |-> [code |-> -32700, message |-> "Parse error"]]

(***************************************************************************)
(* handle_mcp_request.  The three .get calls on request_data precede the   *)
(* try block, so what they raise leaves the function; everything after is  *)
(* inside it and ends in the -32603 envelope.                              *)
(***************************************************************************)
handle_mcp_request(request_data) ==
    IF ~HasGet(request_data)
    THEN NoGetAttribute(request_data)
    ELSE LET method == DictGet(request_data, "method", None)
             params == DictGet(request_data, "params", EmptyDict)
             request_id == DictGet(request_data, "id", None)
         IN  IF method = JStr("initialize")
             THEN Return(InitializeResponse(request_id))
             ELSE IF method = JStr("tools/list")
             THEN Return(ToolsListResponse(request_id, handle_list_tools))
             ELSE IF method = JStr("tools/call")
             THEN IF ~HasGet(params)
                  THEN Return(InternalErrorResponse(request_id, NoGetAttribute(params).value))
                  ELSE LET tool_name == DictGet(params, "name", None)
                           arguments == DictGet(params, "arguments", EmptyDict)
                           result == handle_call_tool(tool_name, arguments)
                       IN  IF result.raised
                           THEN Return(InternalErrorResponse(request_id, result.value))
                           ELSE Return(ToolsCallResponse(request_id, result.value))
             ELSE Return(MethodNotFoundResponse(request_id, method))

(***************************************************************************)
(* The HTTP boundary.  A raw body either is well-formed JSON, and then     *)
(* request.json() returns the document it encodes, or is not, and then     *)
(* request.json() raises.                                                  *)
(***************************************************************************)
Malformed == [wellformed |-> FALSE, doc |-> None]
Encoded(doc) == [wellformed |-> TRUE, doc |-> doc]

request_json(raw) ==
    IF raw.wellformed THEN Return(raw.doc) ELSE Raise("JSONDecodeError", "Expecting value")

mcp_root_unguarded(raw) ==
    LET body == request_json(raw)
    IN  IF body.raised THEN ParseErrorResponse ELSE handle_mcp_request(body.value).value

mcp_root(raw) ==
    LET body == request_json(raw)
    IN  IF body.raised
        THEN ParseErrorResponse
        ELSE LET response == handle_mcp_request(body.value)
             IN  IF response.raised THEN ParseErrorResponse ELSE response.value

mcp_endpoint(raw) ==
    LET body == request_json(raw)
    IN  IF body.raised
        THEN ParseErrorResponse
        ELSE LET response == handle_mcp_request(body.value)
             IN  IF response.raised THEN ParseErrorResponse ELSE response.value

\* How the endpoint's call of handle_mcp_request ended for this raw body.
DispatchOutcome(raw) ==
    LET body == request_json(raw)
    IN  IF body.raised THEN "not_called"
        ELSE IF handle_mcp_request(body.value).raised THEN "raised" ELSE "returned"

(***************************************************************************)
(* The request universe.  Absent marks a key left out of a dict; it is not *)
(* a value and never appears inside a request.                             *)
(***************************************************************************)
Absent == [t |-> "absent", v |-> "absent"]

\* The dict holding exactly the keys of `entries` whose value is not Absent.
MkDict(entries) ==
    JDict([k \in {j \in DOMAIN entries : entries[j] # Absent} |-> entries[k]])

Methods ==
    { Absent, None, JNum(7), JStr("initialize"), JStr("tools/list"),
      JStr("tools/call"), JStr("ping") }

Ids == {Absent, None, JNum(1), JStr("a")}

ToolNames == {Absent, None, JStr("get_secret_text"), JStr("other")}

ToolArguments == {Absent, EmptyDict, EmptyList, JDict([x |-> JNum(1)])}

ParamsValues ==
    {Absent, None, EmptyList, JStr("x")}
        \cup {MkDict([name |-> n, arguments |-> a]) : n \in ToolNames, a \in ToolArguments}

Documents ==
    {None, JNum(1), JStr("x"), EmptyList}
        \cup { MkDict([method |-> m, id |-> i, params |-> p]) :
                 m \in Methods, i \in Ids, p \in ParamsValues }

RawBodies == {Malformed} \cup {Encoded(d) : d \in Documents}

Paths == {"/", "/mcp"}

Requests == [path : Paths, raw : RawBodies]

(***************************************************************************)
(* Spec: one POST at a time, each endpoint taken as a whole.               *)
(***************************************************************************)
Idle ==
    [ pc |-> "idle", path |-> "/", raw |-> Malformed, body |-> None, method |-> None,
      params |-> None, request_id |-> None, tool_name |-> None, arguments |-> None,
      response |-> ParseErrorResponse, sent |-> <<>> ]

Slots == 1 .. MaxInFlight

Init ==
    /\ request \in Requests
    /\ reply = <<>>
    /\ dispatch = "not_called"
    /\ served = 0
    /\ tasks = [s \in Slots |-> Idle]

PostRoot ==
    /\ request.path = "/"
    /\ reply = <<>>
    /\ reply' = <<mcp_root(request.raw)>>
    /\ dispatch' = DispatchOutcome(request.raw)
    /\ UNCHANGED <<request, served, tasks>>

PostMcp ==
    /\ request.path = "/mcp"
    /\ reply = <<>>
    /\ reply' = <<mcp_endpoint(request.raw)>>
    /\ dispatch' = DispatchOutcome(request.raw)
    /\ UNCHANGED <<request, served, tasks>>

\* The client, having its answer, sends the next request.
NextRequest ==
    /\ reply # <<>>
    /\ served < MaxServed
    /\ request' \in Requests
    /\ reply' = <<>>
    /\ dispatch' = "not_called"
    /\ served' = served + 1
    /\ UNCHANGED tasks

Next == PostRoot \/ PostMcp \/ NextRequest

Spec == Init /\ [][Next]_vars

(***************************************************************************)
(* FairSpec: up to MaxInFlight handlers in flight.  A handler is at one of *)
(* the await points of the code:                                           *)
(*   "json"        await request.json()                                    *)
(*   "dispatch"    await handle_mcp_request(body)                          *)
(*   "list_tools"  await handle_list_tools()                               *)
(*   "call_tool"   await handle_call_tool(tool_name, arguments)            *)
(*   "done"        the endpoint has returned its response                  *)
(*   "closed"      the response has been sent to the client                *)
(* method, params, request_id, tool_name, arguments and response are the   *)
(* locals of the handler's own coroutine frames.                           *)
(***************************************************************************)
ConcRawBodies ==
    { Malformed,
      Encoded(EmptyList),
      Encoded(MkDict([method |-> JStr("tools/list"), id |-> JStr("a"), params |-> Absent])),
      Encoded(MkDict([method |-> JStr("tools/call"), id |-> JNum(1),
                      params |-> MkDict([name |-> JStr("get_secret_text"), arguments |-> Absent])])),
      Encoded(MkDict([method |-> JStr("tools/call"), id |-> Absent,
                      params |-> MkDict([name |-> JStr("other"), arguments |-> EmptyDict])])),
      Encoded(MkDict([method |-> JStr("ping"), id |-> JNum(7), params |-> EmptyList])) }

ConcInit ==
    /\ request = [path |-> "/", raw |-> Malformed]
    /\ reply = <<>>
    /\ dispatch = "not_called"
    /\ served = 0
    /\ tasks = [s \in Slots |-> Idle]

\* `response = {...}` as a global shared by all handlers
SetResponseShared(ts, s, response) ==
    [u \in DOMAIN ts |->
        IF u = s THEN [ts[u] EXCEPT !.response = response, !.pc = "done"]
        ELSE [ts[u] EXCEPT !.response = response]]

\* `response = {...}` followed by `return response`, up to the endpoint's return
SetResponse(ts, s, response) ==
    [ts EXCEPT ![s].response = response, ![s].pc = "done"]

\* A POST arrives at `path` and its handler starts.
Accept(s, path, raw) ==
    /\ tasks[s].pc = "idle"
    /\ tasks' = [tasks EXCEPT ![s] = [Idle EXCEPT !.pc = "json", !.path = path, !.raw = raw]]
    /\ UNCHANGED <<request, reply, dispatch, served>>

\* request.json() completes: the body, or the exception the endpoint catches.
ReadJson(s) ==
    /\ tasks[s].pc = "json"
    /\ LET body == request_json(tasks[s].raw)
       IN  tasks' = IF body.raised
                    THEN SetResponse(tasks, s, ParseErrorResponse)
                    ELSE [tasks EXCEPT ![s].body = body.value, ![s].pc = "dispatch"]
    /\ UNCHANGED <<request, reply, dispatch, served>>

\* handle_mcp_request runs from its entry to its first await or its return.
EnterDispatch(s) ==
    /\ tasks[s].pc = "dispatch"
    /\ LET request_data == tasks[s].body
       IN  IF ~HasGet(request_data)
           THEN tasks' = SetResponse(tasks, s, ParseErrorResponse)
           ELSE LET method == DictGet(request_data, "method", None)
                    params == DictGet(request_data, "params", EmptyDict)
                    request_id == DictGet(request_data, "id", None)
                    bound == [tasks EXCEPT ![s].method = method, ![s].params = params,
                                           ![s].request_id = request_id]
                IN  IF method = JStr("initialize")
                    THEN tasks' = SetResponse(bound, s, InitializeResponse(request_id))
                    ELSE IF method = JStr("tools/list")
                    THEN tasks' = [bound EXCEPT ![s].pc = "list_tools"]
                    ELSE IF method = JStr("tools/call")
                    THEN IF ~HasGet(params)
                         THEN tasks' = SetResponse(bound, s,
                                  InternalErrorResponse(request_id, NoGetAttribute(params).value))
                         ELSE tasks' = [bound EXCEPT
                                  ![s].tool_name = DictGet(params, "name", None),
                                  ![s].arguments = DictGet(params, "arguments", EmptyDict),
                                  ![s].pc = "call_tool"]
                    ELSE tasks' = SetResponse(bound, s, MethodNotFoundResponse(request_id, method))
    /\ UNCHANGED <<request, reply, dispatch, served>>

\* handle_list_tools() returns and the tools/list envelope is built.
ListToolsReturns(s) ==
    /\ tasks[s].pc = "list_tools"
    /\ tasks' = SetResponse(tasks, s, ToolsListResponse(tasks[s].request_id, handle_list_tools))
    /\ UNCHANGED <<request, reply, dispatch, served>>

\* handle_call_tool() returns or raises; the except clause catches the raise.
CallToolReturns(s) ==
    /\ tasks[s].pc = "call_tool"
    /\ LET result == handle_call_tool(tasks[s].tool_name, tasks[s].arguments)
       IN  tasks' = IF result.raised
                    THEN SetResponse(tasks, s, InternalErrorResponse(tasks[s].request_id, result.value))
                    ELSE SetResponse(tasks, s, ToolsCallResponse(tasks[s].request_id, result.value))
    /\ UNCHANGED <<request, reply, dispatch, served>>

\* The framework serialises the returned response and sends it.
Send(s) ==
    /\ tasks[s].pc = "done"
    /\ tasks' = [tasks EXCEPT ![s].sent = Append(@, tasks[s].response), ![s].pc = "closed"]
    /\ UNCHANGED <<request, reply, dispatch, served>>

\* The connection is done with; the slot is free for another request.
Close(s) ==
    /\ tasks[s].pc = "closed"
    /\ tasks' = [tasks EXCEPT ![s] = Idle]
    /\ UNCHANGED <<request, reply, dispatch, served>>

\* The steps the event loop takes for a handler once its request is in.
Advance(s) ==
    \/ ReadJson(s)
    \/ EnterDispatch(s)
    \/ ListToolsReturns(s)
    \/ CallToolReturns(s)
    \/ Send(s)

ConcNext ==
    \E s \in Slots :
        \/ \E path \in Paths, raw \in ConcRawBodies : Accept(s, path, raw)
        \/ Advance(s)
        \/ Close(s)

\* The event loop resumes every handler that is ready to run.
FairSpec == ConcInit /\ [][ConcNext]_vars /\ \A s \in Slots : WF_vars(Advance(s))

(***************************************************************************)
(* What the claims speak of, read off the state of Spec.                   *)
(***************************************************************************)
Answered == reply # <<>>
Response == reply[1]
Doc == request.raw.doc
IsObject == request.raw.wellformed /\ Doc.t = "dict"
Has(key) == IsObject /\ key \in DOMAIN Doc.v
Field(key) == Doc.v[key]
MethodIs(m) == Has("method") /\ Field("method") = JStr(m)
IsError(r) == "error" \in DOMAIN r
IsSuccess(r) == "result" \in DOMAIN r
ErrorCodeIs(r, code) == IsError(r) /\ r.error.code = code

\* The tool name a tools/call request carries: params.name, None when the
\* name or the whole params is left out.
CalledName ==
    IF ~Has("params") \/ Field("params").t # "dict" THEN None
    ELSE IF "name" \in DOMAIN Field("params").v THEN Field("params").v["name"] ELSE None

ParamsIsMapping == ~Has("params") \/ Field("params").t = "dict"

\* C1: a request whose decoded input holds an id is answered with a response
\* holding an id key whose value is exactly that id, whatever the envelope.
C1_IdEchoed ==
    (Answered /\ Has("id")) =>
        /\ "id" \in DOMAIN Response
        /\ Response.id = Field("id")

C1_Witness ==
    /\ Answered
    /\ Has("id")
    /\ Field("id") = JStr("a")
    /\ ErrorCodeIs(Response, -32603)
    /\ Response.id = JStr("a")

\* C2: a tools/call naming any tool other than get_secret_text (the name or
\* the params left out included) is answered by an error envelope with code
\* -32603, a message naming the unknown tool and no result; and the server
\* goes on to take the next request.
C2_UnknownToolIsInternalError ==
    (Answered /\ MethodIs("tools/call") /\ ParamsIsMapping
        /\ CalledName # JStr("get_secret_text")) =>
        /\ Len(reply) = 1
        /\ ErrorCodeIs(Response, -32603)
        /\ Response.error.message = "Unknown tool: " \o PyStr(CalledName)
        /\ ~IsSuccess(Response)
        /\ (served < MaxServed => ENABLED NextRequest)

C2_Witness ==
    /\ Answered
    /\ MethodIs("tools/call")
    /\ ~Has("params")
    /\ ErrorCodeIs(Response, -32603)
    /\ Response.error.message = "Unknown tool: None"
    /\ served > 0

\* C3: a request whose method is none of initialize, tools/list, tools/call
\* (a request with no method included) is answered by an error envelope with
\* code -32601, the message "Method not found: <method>" and no result.
C3_MethodNotFound ==
    (Answered /\ IsObject /\ ~MethodIs("initialize") /\ ~MethodIs("tools/list")
        /\ ~MethodIs("tools/call")) =>
        /\ ErrorCodeIs(Response, -32601)
        /\ Response.error.message
             = "Method not found: " \o PyStr(IF Has("method") THEN Field("method") ELSE None)
        /\ ~IsSuccess(Response)

C3_Witness ==
    /\ Answered
    /\ IsObject
    /\ ~Has("method")
    /\ ErrorCodeIs(Response, -32601)
    /\ Response.error.message = "Method not found: None"

\* C4: a tools/call naming get_secret_text, whatever its arguments, is
\* answered by a success envelope with no error whose result.content is one
\* item of type "text" holding the fixed secret text.
C4_SecretTextReturned ==
    (Answered /\ MethodIs("tools/call") /\ ParamsIsMapping
        /\ CalledName = JStr("get_secret_text")) =>
        /\ ~IsError(Response)
        /\ IsSuccess(Response)
        /\ DOMAIN Response.result = {"content"}
        /\ Len(Response.result.content) = 1
        /\ Response.result.content[1].type = "text"
        /\ Response.result.content[1].text = "Hello World! The secret text is: ANTHROPIC"

C4_Witness ==
    /\ Answered
    /\ MethodIs("tools/call")
    /\ Has("params")
    /\ CalledName = JStr("get_secret_text")
    /\ "arguments" \in DOMAIN Field("params").v
    /\ Field("params").v["arguments"] = JDict([x |-> JNum(1)])
    /\ IsSuccess(Response)

\* C5: a tools/list request, after any earlier requests and with any params,
\* is answered with result.tools of exactly one element, named
\* get_secret_text, whose content is the one fixed descriptor every time.
C5_ToolsListFixed ==
    (Answered /\ MethodIs("tools/list")) =>
        /\ IsSuccess(Response)
        /\ Len(Response.result.tools) = 1
        /\ Response.result.tools[1].name = "get_secret_text"
        /\ Response.result.tools = <<ToolDump>>

C5_Witness ==
    /\ Answered
    /\ MethodIs("tools/list")
    /\ Has("params")
    /\ Field("params") = EmptyList
    /\ served = MaxServed
    /\ IsSuccess(Response)
    /\ Len(Response.result.tools) = 1

\* C6 as stated: a failure envelope carries the request's id when the request
\* has one and has no id key at all when the request has none.
C6_IdOmittedWhenAbsent ==
    (Answered /\ IsError(Response)) =>
        /\ Has("id") => ("id" \in DOMAIN Response /\ Response.id = Field("id"))
        /\ ~Has("id") => "id" \notin DOMAIN Response

\* C6 amended: a failure envelope built by the dispatcher (-32601, -32603)
\* always holds an id key, the request's id when it has one and null when it
\* has none; the parse-error envelope (-32700) alone holds no id key.
C6_IdNullWhenAbsent ==
    (Answered /\ IsError(Response)) =>
        /\ Response.error.code \in {-32601, -32603} =>
               /\ "id" \in DOMAIN Response
               /\ Response.id = (IF Has("id") THEN Field("id") ELSE None)
        /\ Response.error.code = -32700 => "id" \notin DOMAIN Response

C6_Witness ==
    /\ Answered
    /\ IsObject
    /\ ~Has("id")
    /\ ErrorCodeIs(Response, -32601)
    /\ "id" \in DOMAIN Response
    /\ Response.id = None

\* C7 as stated: a POST is answered with the -32700 envelope exactly when its
\* body fails to parse as JSON.
C7_ParseErrorIffMalformed ==
    Answered => (ErrorCodeIs(Response, -32700) <=> ~request.raw.wellformed)

\* C8 as stated: no exception raised inside the dispatcher leaves it; a
\* tools/call whose params is no mapping ends in the -32603 envelope, with the
\* request's id.
C8_NoExceptionEscapes ==
    Answered =>
        /\ dispatch # "raised"
        /\ (MethodIs("tools/call") /\ ~ParamsIsMapping) =>
               /\ ErrorCodeIs(Response, -32603)
               /\ Response.id = (IF Has("id") THEN Field("id") ELSE None)

\* C9: every response to a POST is one well-formed JSON-RPC envelope: jsonrpc
\* is "2.0", exactly one of result and error is present, and an error has a
\* code among -32700, -32601, -32603 and a string message.
C9_WellFormedEnvelope ==
    Answered =>
        /\ Len(reply) = 1
        /\ "jsonrpc" \in DOMAIN Response
        /\ Response.jsonrpc = "2.0"
        /\ IsSuccess(Response) # IsError(Response)
        /\ DOMAIN Response \subseteq {"jsonrpc", "id", "result", "error"}
        /\ IsError(Response) =>
               /\ Response.error.code \in {-32700, -32601, -32603}
               /\ Response.error.message \in STRING

C9_Witness ==
    /\ Answered
    /\ request.raw.wellformed
    /\ Doc = EmptyList
    /\ dispatch = "raised"
    /\ Response = ParseErrorResponse
    /\ served > 0

\* The response the endpoint gives a request handled on its own.
Alone(t) == IF t.path = "/" THEN mcp_root(t.raw) ELSE mcp_endpoint(t.raw)

ExactlyOneOwnResponse ==
    \A s \in Slots :
        /\ tasks[s].pc = "closed" => tasks[s].sent = <<Alone(tasks[s])>>
        /\ tasks[s].pc # "closed" => tasks[s].sent = <<>>
        /\ tasks[s].pc = "done" => tasks[s].response = Alone(tasks[s])

\* C10: under any interleaving of the handlers at their await points, every
\* request that has arrived is eventually sent exactly one response, and that
\* response is the one the endpoint gives the same request handled alone,
\* whatever the other requests in flight are and however they end.
C10_IsolatedResponses ==
    /\ [] ExactlyOneOwnResponse
    /\ \A s \in Slots : (tasks[s].pc = "json") ~> (tasks[s].pc = "closed")

C10_Witness ==
    \E s, u \in Slots :
        /\ s # u
        /\ tasks[s].pc = "closed"
        /\ ErrorCodeIs(tasks[s].sent[1], -32603)
        /\ "id" \in DOMAIN tasks[s].sent[1]
        /\ tasks[s].sent[1].id = None
        /\ tasks[u].pc = "closed"
        /\ IsSuccess(tasks[u].sent[1])
        /\ tasks[u].sent[1].id = JNum(1)

====
